---------------------------- MODULE Spec2Model ----------------------------
(***************************************************************************)
(* Model of CSARCH2_Simulation.py: the CacheSimulator engine, an 8-way     *)
(* set-associative cache of 32 blocks (4 sets) with MRU replacement, its   *)
(* trace log, its counters and its read-only queries.                      *)
(*                                                                         *)
(* Python integers are unbounded, so no width is modelled.  Python's %     *)
(* is the floor modulus, which is what TLC's % computes for a positive     *)
(* divisor: (-1) % 4 = 3 in both.                                          *)
(***************************************************************************)
EXTENDS Integers, Sequences, FiniteSets, TLC

VARIABLES
    total_memory_blocks,  \* self.total_memory_blocks
    cache,                \* self.cache: one list of entries per set
    time_counter,         \* self.time_counter
    hits,                 \* self.hits
    misses,               \* self.misses
    log,                  \* self.log
    pending,              \* run_sequence: the elements its loop has yet to visit
    out,                  \* the value the last query returned
    calls,                \* history: one record per access call made so far
    ops,                  \* history: number of engine operations started
    replay,               \* history: the last run_sequence call: its argument,
                          \* the engine and the number of calls on entry
    gen                   \* run_simulation: the test case, n, the sequence
                          \* generated so far and the handler's position

vars == <<total_memory_blocks, cache, time_counter, hits, misses, log,
          pending, out, calls, ops, replay, gen>>

---------------------------------------------------------------------------
(* Bounds of the model *)

\* Number of engine operations (access, run_sequence, a query) a run starts.
MaxOps == 3

\* Random test case: the largest n and the largest total_memory_blocks tried.
MaxRandomN == 1

MaxRandomTotal == 2

---------------------------------------------------------------------------
(* Program constants: CacheSimulator.__init__ *)

cache_blocks == 32

associativity == 8

num_sets == cache_blocks \div associativity

\* Default (and least) address-space size the application passes on.
DefaultTotal == 1024

\* run_simulation: "Fixed n = 32 cache blocks"
FixedN == 32

---------------------------------------------------------------------------
(* Inputs *)

\* total_memory_blocks handed to the constructor, which accepts any integer.
Totals == {0, 8, DefaultTotal}

\* Addresses handed to single access calls.
Addr == {-4, 0, 1, 28, 32, 36, DefaultTotal}

\* first, first+step, ..., count elements
Stride(first, step, count) == [i \in 1..count |-> first + (i - 1) * step]

Fill8 == Stride(0, 4, 8)

Forced9 == Stride(0, 4, 9)

Cold8 == Stride(0, 1, 8)

\* Two blocks of set 0, accessed again and again.
Reuse5 == <<0, 4, 0, 4, 0>>

\* Sequences handed to run_sequence.
Seqs == {Fill8, Forced9, Cold8, Reuse5, <<-4, DefaultTotal, 1, 1>>, <<>>}

---------------------------------------------------------------------------
(* Trace entries: the f-strings of access, kept as their fields *)

LogInvalid(a) == [kind |-> "Invalid", block |-> a]

LogHit(a, s) == [kind |-> "HIT", block |-> a, set |-> s]

LogMiss(a, s) == [kind |-> "MISS", block |-> a, set |-> s]

LogLoaded_AsHit(a, s) == [kind |-> "HIT", block |-> a, set |-> s]

LogLoaded(a, s) == [kind |-> "Loaded", block |-> a, set |-> s]

LogReplaced(r, a, s) == [kind |-> "Replaced", old |-> r, block |-> a, set |-> s]

---------------------------------------------------------------------------
(* CacheSimulator.access *)

Entry_StaleClock(a, t) == [block |-> a, timestamp |-> t - 1]

Entry(a, t) == [block |-> a, timestamp |-> t]

\* line 22: the counter advances before the address is looked at
NextTime_ValidOnly(a) == IF a >= total_memory_blocks THEN time_counter ELSE time_counter + 1

NextTime(a) == time_counter + 1

\* line 24: the only validation the code performs
ExceedsTotal(a) == a >= total_memory_blocks

SetIndex_Tag(a) == (a \div num_sets) % num_sets

SetIndex(a) == a % num_sets

\* lines 33-39: the position of the first entry holding block a, 0 when none
RECURSIVE FindFrom(_, _, _)
FindFrom(set, a, i) ==
    IF i > Len(set) THEN 0
    ELSE IF set[i].block = a THEN i
    ELSE FindFrom(set, a, i + 1)

FindIndex_Never(set, a) == 0

FindIndex(set, a) == FindFrom(set, a, 1)

\* line 36: the hit refreshes the entry's timestamp
Touch_Stale(entry, now) == entry

Touch(entry, now) == [entry EXCEPT !.timestamp = now]

HasRoom_OffByOne(set) == Len(set) <= associativity

HasRoom(set) == Len(set) < associativity

\* lines 50-55: scan for the first entry with the strictly greatest timestamp
RECURSIVE MruScan(_, _, _, _)
MruScan(set, i, mru_index, mru_time) ==
    IF i > Len(set) THEN mru_index
    ELSE IF set[i].timestamp > mru_time
         THEN MruScan(set, i + 1, i, set[i].timestamp)
         ELSE MruScan(set, i + 1, mru_index, mru_time)

RECURSIVE LruScan(_, _, _, _)
LruScan(set, i, lru_index, lru_time) ==
    IF i > Len(set) THEN lru_index
    ELSE IF lru_index = 0 \/ set[i].timestamp < lru_time
         THEN LruScan(set, i + 1, i, set[i].timestamp)
         ELSE LruScan(set, i + 1, lru_index, lru_time)

MruIndex_Lru(set) == LruScan(set, 1, 0, 0)

MruIndex(set) == MruScan(set, 1, 0, -1)

\* Whether block a is held anywhere in the cache (history only).
Resident(a) == \E s \in DOMAIN cache : \E i \in 1..Len(cache[s]) : cache[s][i].block = a

access(a) ==
    /\ time_counter' = NextTime(a)
    /\ calls' = Append(calls, [addr |-> a, resident |-> Resident(a)])
    /\ IF ExceedsTotal(a)
       THEN /\ log' = Append(log, LogInvalid(a))
            /\ UNCHANGED <<cache, hits, misses>>
       ELSE LET set_index == SetIndex(a)
                found == FindIndex(cache[set_index], a)
                now == NextTime(a)
            IN  IF found # 0
                THEN /\ cache' = [cache EXCEPT ![set_index][found] = Touch(@, now)]
                     /\ hits' = hits + 1
                     /\ log' = Append(log, LogHit(a, set_index))
                     /\ UNCHANGED misses
                ELSE /\ misses' = misses + 1
                     /\ UNCHANGED hits
                     /\ IF HasRoom(cache[set_index])
                        THEN /\ cache' = [cache EXCEPT ![set_index] = Append(@, Entry(a, now))]
                             /\ log' = log \o <<LogMiss(a, set_index), LogLoaded(a, set_index)>>
                        ELSE LET mru_index == MruIndex(cache[set_index])
                                 replaced_block == cache[set_index][mru_index].block
                             IN  /\ cache' = [cache EXCEPT ![set_index][mru_index] = Entry(a, now)]
                                 /\ log' = log \o <<LogMiss(a, set_index),
                                                    LogReplaced(replaced_block, a, set_index)>>

\* The engine's fields, and access(a) as the function it computes on them.
Engine == [cache |-> cache, time_counter |-> time_counter, hits |-> hits,
           misses |-> misses, log |-> log]

AccessResult(st, a) ==
    LET now == st.time_counter + 1
        set_index == SetIndex(a)
        set == st.cache[set_index]
        found == FindIndex(set, a)
        mru_index == MruIndex(set)
    IN  IF ExceedsTotal(a)
        THEN [st EXCEPT !.time_counter = now, !.log = Append(@, LogInvalid(a))]
        ELSE IF found # 0
        THEN [st EXCEPT !.time_counter = now,
                        !.cache[set_index][found] = Touch(@, now),
                        !.hits = @ + 1,
                        !.log = Append(@, LogHit(a, set_index))]
        ELSE IF HasRoom(set)
        THEN [st EXCEPT !.time_counter = now,
                        !.cache[set_index] = Append(@, Entry(a, now)),
                        !.misses = @ + 1,
                        !.log = @ \o <<LogMiss(a, set_index), LogLoaded(a, set_index)>>]
        ELSE [st EXCEPT !.time_counter = now,
                        !.cache[set_index][mru_index] = Entry(a, now),
                        !.misses = @ + 1,
                        !.log = @ \o <<LogMiss(a, set_index),
                                       LogReplaced(set[mru_index].block, a, set_index)>>]

---------------------------------------------------------------------------
(* CacheSimulator.get_statistics, get_cache_snapshot *)

\* Python's true division n / d of two integers is the quotient rounded to
\* the nearest double (53 significant bits, ties to even).  The double is kept
\* exactly, as the record [num, den, err, exp]: num / den is the true quotient
\* in lowest terms and the double's value is
\*     (num * 2^exp + err) / (den * 2^exp),
\* so err = 0 exactly when the quotient is representable.
RECURSIVE Gcd(_, _)
Gcd(m, n) == IF n = 0 THEN m ELSE Gcd(n, m % n)

\* The k with 2^k <= n / d < 2^(k+1), for n, d > 0.
RECURSIVE Log2Up(_, _, _)
Log2Up(n, d, k) == IF 2 * d <= n THEN Log2Up(n, 2 * d, k + 1) ELSE k

RECURSIVE Log2Down(_, _, _)
Log2Down(n, d, k) == IF n < d THEN Log2Down(2 * n, d, k - 1) ELSE k

Log2Ratio(n, d) == IF n >= d THEN Log2Up(n, d, 0) ELSE Log2Down(n, d, 0)

\* Binary long division: after `steps` more quotient bits, the remainder of
\* n * 2^steps by d and the parity of the quotient.  Eight bits are taken at
\* a time while eight remain (256 * rem stays far below 2^31 for the
\* denominators a run of this size produces), then one at a time.
RECURSIVE LongDiv(_, _, _, _)
LongDiv(rem, odd, d, steps) ==
    IF steps = 0 THEN [rem |-> rem, odd |-> odd]
    ELSE IF steps >= 8
         THEN LongDiv((256 * rem) % d, ((256 * rem) \div d) % 2, d, steps - 8)
         ELSE LongDiv((2 * rem) % d, ((2 * rem) \div d) % 2, d, steps - 1)

\* Round to nearest, ties to even: the error of the 53-bit quotient, times d.
RoundErr_Truncate(r, odd, d) == 0 - r

RoundErr(r, odd, d) ==
    IF 2 * r > d \/ (2 * r = d /\ odd = 1) THEN d - r ELSE 0 - r

Quotient(n, d) ==
    IF n = 0 THEN [num |-> 0, den |-> 1, err |-> 0, exp |-> 0]
    ELSE LET g == Gcd(n, d)
             p == n \div g
             q == d \div g
             e == 52 - Log2Ratio(p, q)
             ld == LongDiv(p % q, (p \div q) % 2, q, e)
         IN  [num |-> p, den |-> q, err |-> RoundErr(ld.rem, ld.odd, q), exp |-> e]

\* The int 0 of the else branches.
Zero == [num |-> 0, den |-> 1, err |-> 0, exp |-> 0]

\* lines 66, 67, 72: count / total if total > 0 else 0
Rate_Complement(count, total) ==
    IF total > 0 /\ count <= total THEN Quotient(total - count, total) ELSE Zero

Rate(count, total) == IF total > 0 THEN Quotient(count, total) ELSE Zero

\* line 71: 1 unit per hit, 101 per miss
TotalTime_NoCacheCheck(h, m) == h * 1 + m * 100

TotalTime(h, m) == h * 1 + m * 101

get_statistics ==
    LET total == hits + misses
        total_time == TotalTime(hits, misses)
    IN  [TotalAccesses |-> total,
         Hits |-> hits,
         Misses |-> misses,
         HitRate |-> Rate(hits, total),
         MissRate |-> Rate(misses, total),
         TotalMemoryAccessTime |-> total_time,
         AverageMemoryAccessTime |-> Rate(total_time, total)]

\* The text built line by line, kept as the sequence of its lines' fields.
RECURSIVE SnapshotFrom(_)
SnapshotFrom(set_index) ==
    IF set_index >= num_sets THEN <<>>
    ELSE <<[kind |-> "Set", set |-> set_index]>>
         \o [i \in 1..Len(cache[set_index]) |->
                [kind |-> "Block", block |-> cache[set_index][i].block,
                 timestamp |-> cache[set_index][i].timestamp]]
         \o SnapshotFrom(set_index + 1)

get_cache_snapshot == SnapshotFrom(0)

---------------------------------------------------------------------------
(* Test sequence generators *)

\* list(range(lo, hi))
Range(lo, hi) == [i \in 1..(hi - lo) |-> lo + i - 1]

generate_sequential_sequence_Inclusive(n) ==
    LET seq == Range(0, 2 * n + 1) IN seq \o seq \o seq \o seq

generate_sequential_sequence(n) ==
    LET seq == Range(0, 2 * n) IN seq \o seq \o seq \o seq

generate_midrepeat_sequence(n) ==
    LET first_part == Range(0, n)
        mid_repeat == Range(1, n)
        last_part == Range(n, 2 * n)
        seq == first_part \o mid_repeat \o last_part
    IN  seq \o seq \o seq \o seq

\* random.randint(lo, hi): any integer of lo..hi, both ends included
RandInt_PastEnd(lo, hi) == lo..(hi + 1)

RandInt(lo, hi) == lo..hi

---------------------------------------------------------------------------
(* The state machine *)

\* No test case is being run.
NoStream == [kind |-> "none", n |-> 0, seq |-> <<>>, phase |-> "none"]

Init ==
    /\ total_memory_blocks \in Totals
    /\ cache = [s \in 0..(num_sets - 1) |-> <<>>]
    /\ time_counter = 0
    /\ hits = 0
    /\ misses = 0
    /\ log = <<>>
    /\ pending = <<>>
    /\ out = [op |-> "none"]
    /\ calls = <<>>
    /\ ops = 0
    /\ replay = [seq |-> <<>>, at |-> 0, from |-> Engine]
    /\ gen = NoStream

Idle == pending = <<>> /\ ops < MaxOps

\* A caller's single access(block_address).
Access ==
    \E a \in Addr :
        /\ Idle
        /\ access(a)
        /\ ops' = ops + 1
        /\ UNCHANGED <<total_memory_blocks, pending, out, replay, gen>>

\* run_sequence(sequence) is entered: its loop has every element ahead.
RunSequence ==
    \E sequence \in Seqs :
        /\ Idle
        /\ pending' = sequence
        /\ replay' = [seq |-> sequence, at |-> Len(calls), from |-> Engine]
        /\ ops' = ops + 1
        /\ UNCHANGED <<total_memory_blocks, cache, time_counter, hits, misses,
                       log, out, calls, gen>>

\* One iteration of run_sequence's loop: self.access(block).
RunStep_FromEnd ==
    /\ pending # <<>>
    /\ access(pending[Len(pending)])
    /\ pending' = SubSeq(pending, 1, Len(pending) - 1)
    /\ UNCHANGED <<total_memory_blocks, out, ops, replay, gen>>

RunStep ==
    /\ pending # <<>>
    /\ access(Head(pending))
    /\ pending' = Tail(pending)
    /\ UNCHANGED <<total_memory_blocks, out, ops, replay, gen>>

GetStatistics_Resets ==
    /\ Idle
    /\ out' = [op |-> "get_statistics", value |-> get_statistics]
    /\ hits' = 0
    /\ misses' = 0
    /\ ops' = ops + 1
    /\ UNCHANGED <<total_memory_blocks, cache, time_counter, log,
                   pending, calls, replay, gen>>

GetStatistics ==
    /\ Idle
    /\ out' = [op |-> "get_statistics", value |-> get_statistics]
    /\ ops' = ops + 1
    /\ UNCHANGED <<total_memory_blocks, cache, time_counter, hits, misses, log,
                   pending, calls, replay, gen>>

GetCacheSnapshot ==
    /\ Idle
    /\ out' = [op |-> "get_cache_snapshot", value |-> get_cache_snapshot]
    /\ ops' = ops + 1
    /\ UNCHANGED <<total_memory_blocks, cache, time_counter, hits, misses, log,
                   pending, calls, replay, gen>>

Next == Access \/ RunSequence \/ RunStep \/ GetStatistics \/ GetCacheSnapshot

Spec == Init /\ [][Next]_vars

\* run_sequence's loop is plain sequential code: once entered it keeps going.
FairSpec == Spec /\ WF_vars(RunStep)

---------------------------------------------------------------------------
(* One run of a test case, as CacheSimulatorApp.run_simulation makes it:   *)
(* generate the sequence, construct the engine, replay, read the results.  *)
(* The handler fixes n = 32 and refuses total_memory_blocks < 1024; the    *)
(* generators and the engine take any n and total, and small ones are run  *)
(* here as well.                                                           *)

SequentialNs == {1, 2, FixedN}

StreamCases ==
    [kind : {"Sequential", "Mid-Repeat"}, n : SequentialNs, total : {DefaultTotal}]
    \cup [kind : {"Random"}, n : 1..MaxRandomN, total : 1..MaxRandomTotal]

StreamInit ==
    \E c \in StreamCases :
        /\ total_memory_blocks = c.total
        /\ gen = [kind |-> c.kind, n |-> c.n, seq |-> <<>>, phase |-> "generate"]
        /\ cache = [s \in 0..(num_sets - 1) |-> <<>>]
        /\ time_counter = 0
        /\ hits = 0
        /\ misses = 0
        /\ log = <<>>
        /\ pending = <<>>
        /\ out = [op |-> "none"]
        /\ calls = <<>>
        /\ ops = 0
        /\ replay = [seq |-> <<>>, at |-> 0, from |-> Engine]

EngineUntouched ==
    UNCHANGED <<total_memory_blocks, cache, time_counter, hits, misses, log, calls>>

GenerateSequential ==
    /\ gen.phase = "generate" /\ gen.kind = "Sequential"
    /\ gen' = [gen EXCEPT !.seq = generate_sequential_sequence(gen.n), !.phase = "ready"]
    /\ EngineUntouched
    /\ UNCHANGED <<pending, out, ops, replay>>

GenerateMidRepeat ==
    /\ gen.phase = "generate" /\ gen.kind = "Mid-Repeat"
    /\ gen' = [gen EXCEPT !.seq = generate_midrepeat_sequence(gen.n), !.phase = "ready"]
    /\ EngineUntouched
    /\ UNCHANGED <<pending, out, ops, replay>>

\* One element of generate_random_sequence's list comprehension.
DrawRandom ==
    /\ gen.phase = "generate" /\ gen.kind = "Random"
    /\ \E a \in RandInt(0, total_memory_blocks - 1) :
          gen' = [gen EXCEPT !.seq = Append(@, a),
                             !.phase = IF Len(gen.seq) + 1 = 4 * gen.n
                                       THEN "ready" ELSE "generate"]
    /\ EngineUntouched
    /\ UNCHANGED <<pending, out, ops, replay>>

\* simulator.run_sequence(sequence) is entered.
StartRun ==
    /\ gen.phase = "ready"
    /\ pending' = gen.seq
    /\ replay' = [seq |-> gen.seq, at |-> Len(calls), from |-> Engine]
    /\ gen' = [gen EXCEPT !.phase = "run"]
    /\ ops' = ops + 1
    /\ EngineUntouched
    /\ UNCHANGED out

\* The log, the snapshot and the statistics are read and displayed.
Display ==
    /\ gen.phase = "run" /\ pending = <<>>
    /\ out' = [op |-> "display", log |-> log, snapshot |-> get_cache_snapshot,
               stats |-> get_statistics]
    /\ gen' = [gen EXCEPT !.phase = "done"]
    /\ EngineUntouched
    /\ UNCHANGED <<pending, ops, replay>>

StreamNext ==
    GenerateSequential \/ GenerateMidRepeat \/ DrawRandom \/ StartRun \/ RunStep \/ Display

StreamSpec == StreamInit /\ [][StreamNext]_vars

---------------------------------------------------------------------------
(* Vocabulary of the properties *)

SetIds == 0..3

Lines(s) == {cache[s][i] : i \in 1..Len(cache[s])}

Blocks(s) == {cache[s][i].block : i \in 1..Len(cache[s])}

Kinds == {log[i].kind : i \in 1..Len(log)}

\* Positions of the replacement events of the trace.
ReplacedAt == {i \in 1..Len(log) : log[i].kind = "Replaced"}

\* The addresses of the access calls made so far, in order.
CallAddrs == [i \in 1..Len(calls) |-> calls[i].addr]

\* This step is one access call; its address is LastAddr'.
IsAccessStep == Len(calls') = Len(calls) + 1

LastAddr == calls[Len(calls)].addr

\* The range of valid addresses as the specification states it.
InRange(a) == 0 <= a /\ a < total_memory_blocks

MaxStamp(set) == CHOOSE t \in {set[i].timestamp : i \in 1..Len(set)} :
                    \A i \in 1..Len(set) : set[i].timestamp <= t

---------------------------------------------------------------------------
(* C1 - Capacity invariant: after any sequence of access calls, with any  *)
(* addresses and any totalAddressSpace, there are exactly the 4 Sets and  *)
(* every one of them holds at most 8 Lines.                                *)
C1_Capacity ==
    /\ DOMAIN cache = SetIds
    /\ \A s \in SetIds : Len(cache[s]) <= 8

\* A Set that holds 8 Lines has taken a further miss.
C1_Witness ==
    \E i \in ReplacedAt : Len(cache[log[i].set]) = 8

(* C2 - No-duplicate invariant: no two distinct Lines of one Set carry    *)
(* the same blockAddress, and no block is resident in two Sets.            *)
C2_NoDuplicate ==
    /\ \A s \in SetIds : \A i, j \in 1..Len(cache[s]) :
           cache[s][i].block = cache[s][j].block => i = j
    /\ \A s, t \in SetIds : s # t => Blocks(s) \cap Blocks(t) = {}

\* A resident block has been accessed again, in a Set with several Lines,
\* and a block has been reloaded into a full Set.
C2_Witness ==
    /\ hits > 0
    /\ \E s \in SetIds : Len(cache[s]) = 8
    /\ ReplacedAt # {}

(* C3 - MRU correctness: whenever access(a) misses on a Set that already  *)
(* holds 8 Lines, the Line overwritten is the one whose lastTouched is    *)
(* the maximum among that Set's Lines just before the access; just after, *)
(* exactly one Line of the Set has blockAddress a, its lastTouched is the *)
(* current logicalClock, and the other 7 Lines are unchanged.              *)
C3_MruStep ==
    LET a == LastAddr'
        s == a % 4
    IN  (IsAccessStep /\ misses' = misses + 1 /\ Len(cache[s]) = 8)
        => \E v \in 1..8 :
              /\ cache[s][v].timestamp = MaxStamp(cache[s])
              /\ \A i \in 1..8 : i # v => cache[s][i].timestamp < cache[s][v].timestamp
              /\ Len(cache'[s]) = 8
              /\ cache'[s][v] = [block |-> a, timestamp |-> time_counter']
              /\ \A i \in 1..8 : i # v => cache'[s][i] = cache[s][i]
              /\ Cardinality({i \in 1..8 : cache'[s][i].block = a}) = 1

\* C3: every step of every run satisfies the MRU step property above.
C3_MruCorrectness == [][C3_MruStep]_vars

\* A full Set whose most recently touched Line is not its last one (a hit
\* moved the maximum) has taken a miss.
C3_Witness ==
    \E i \in ReplacedAt :
        /\ log[i].old = 0
        /\ log[i].block = 32
        /\ Len(cache[0]) = 8
        /\ hits > 0

(* C4 - Counter conservation: hitCount + missCount equals the number of  *)
(* access calls whose address a satisfied 0 <= a < totalAddressSpace; a   *)
(* call with a < 0 or a >= totalAddressSpace changes neither counter.      *)
C4_CounterConservation ==
    hits + misses = Cardinality({i \in 1..Len(calls) : InRange(calls[i].addr)})

(* C5 - Out-of-range handling: an access with address < 0 or address >=   *)
(* totalAddressSpace appends exactly one "invalid address" trace entry    *)
(* and leaves the contents of every Set unchanged.                         *)
C5_OutOfRangeStep ==
    (IsAccessStep /\ ~InRange(LastAddr'))
    => /\ log' = Append(log, [kind |-> "Invalid", block |-> LastAddr'])
       /\ cache' = cache

\* C5: every step of every run handles an out-of-range address that way.
C5_OutOfRange == [][C5_OutOfRangeStep]_vars

(* C6 - Invalid configuration: construction with a non-positive           *)
(* totalAddressSpace fails, so every engine that exists has a positive    *)
(* totalAddressSpace.                                                      *)
C6_PositiveAddressSpace == total_memory_blocks >= 1

(* C7 - Set-index determinism: every Line stored in Set s has             *)
(* blockAddress mod 4 = s, and every HIT, MISS, loaded or replaced trace  *)
(* entry produced by access(a) names set a mod 4, whatever came before.    *)
C7_SetIndex ==
    /\ \A s \in SetIds : \A i \in 1..Len(cache[s]) : cache[s][i].block % 4 = s
    /\ \A i \in 1..Len(log) :
           log[i].kind \in {"HIT", "MISS", "Loaded", "Replaced"}
           => log[i].set = log[i].block % 4

\* Lines in several Sets, and every kind of entry that names a set.
C7_Witness ==
    /\ {"HIT", "MISS", "Loaded", "Replaced"} \subseteq Kinds
    /\ Cardinality({s \in SetIds : cache[s] # <<>>}) >= 2

(* C8 - Idempotent re-access: for an in-range address a that is not       *)
(* resident, access(a) is a MISS (missCount + 1); a second access(a)      *)
(* right after it is a HIT (hitCount + 1), after which the one Line for a *)
(* has lastTouched equal to the logicalClock of the second call.  This    *)
(* holds from every reachable state, a full target Set included.           *)
C8_ReaccessStep ==
    IsAccessStep =>
        LET n == Len(calls)
            a == LastAddr'
            s == a % 4
        IN  /\ (InRange(a) /\ ~calls'[n + 1].resident)
               => /\ misses' = misses + 1
                  /\ hits' = hits
                  /\ log'[Len(log) + 1] = [kind |-> "MISS", block |-> a, set |-> s]
                  /\ Len(log') = Len(log) + 2
            /\ (n >= 1 /\ calls[n].addr = a /\ InRange(a) /\ ~calls[n].resident)
               => /\ hits' = hits + 1
                  /\ misses' = misses
                  /\ log' = Append(log, [kind |-> "HIT", block |-> a, set |-> s])
                  /\ time_counter' = time_counter + 1
                  /\ \E i \in 1..Len(cache'[s]) :
                        /\ cache'[s][i] = [block |-> a, timestamp |-> time_counter']
                        /\ \A j \in 1..Len(cache'[s]) : cache'[s][j].block = a => j = i

\* C8: every step of every run satisfies the re-access property above.
C8_IdempotentReaccess == [][C8_ReaccessStep]_vars

\* The second of two consecutive accesses of a non-resident in-range
\* address whose Set was full has been made.
C8_Witness ==
    LET n == Len(calls) IN
    /\ n >= 2
    /\ calls[n].addr = calls[n - 1].addr
    /\ InRange(calls[n].addr)
    /\ ~calls[n - 1].resident
    /\ Len(log) >= 2
    /\ log[Len(log)].kind = "HIT"
    /\ log[Len(log) - 1].kind = "Replaced"

(* C9 - Forced eviction: on a fresh engine with totalAddressSpace = 1024, *)
(* replaying 0,4,...,32 gives 9 misses and 0 hits; the 9th access evicts  *)
(* the Line for address 28 (loaded at clock 8); the trace has exactly one *)
(* replacement event, "replaced block 28 with block 32"; afterwards set 0 *)
(* holds {0,4,...,24,32}.                                                  *)
C9_ForcedEviction ==
    /\ (total_memory_blocks = 1024 /\ CallAddrs = <<0, 4, 8, 12, 16, 20, 24, 28>>)
       => /\ [block |-> 28, timestamp |-> 8] \in Lines(0)
          /\ ReplacedAt = {}
    /\ (total_memory_blocks = 1024 /\ CallAddrs = <<0, 4, 8, 12, 16, 20, 24, 28, 32>>)
       => /\ misses = 9
          /\ hits = 0
          /\ ReplacedAt = {Len(log)}
          /\ log[Len(log)] = [kind |-> "Replaced", old |-> 28, block |-> 32, set |-> 0]
          /\ Blocks(0) = {0, 4, 8, 12, 16, 20, 24, 32}
          /\ Len(cache[0]) = 8
          /\ [block |-> 32, timestamp |-> 9] \in Lines(0)

C9_Witness ==
    /\ total_memory_blocks = 1024
    /\ CallAddrs = <<0, 4, 8, 12, 16, 20, 24, 28, 32>>
    /\ pending = <<>>

(* C10 - Cold sequential fill: on a fresh engine with totalAddressSpace = *)
(* 1024, replaying 0,1,...,7 gives 8 misses, 0 hits, 8 resident Lines (2  *)
(* in each of the 4 Sets), no replacement event, and hitRate = 0.          *)
C10_ColdFill ==
    (total_memory_blocks = 1024 /\ CallAddrs = <<0, 1, 2, 3, 4, 5, 6, 7>>)
    => /\ misses = 8
       /\ hits = 0
       /\ \A s \in SetIds : Len(cache[s]) = 2 /\ Blocks(s) = {s, s + 4}
       /\ ReplacedAt = {}
       /\ get_statistics.HitRate.num = 0
       /\ get_statistics.Misses = 8
       /\ get_statistics.Hits = 0

C10_Witness ==
    /\ total_memory_blocks = 1024
    /\ CallAddrs = <<0, 1, 2, 3, 4, 5, 6, 7>>
    /\ pending = <<>>
    /\ out.op = "get_statistics"
    /\ out.value.HitRate = [num |-> 0, den |-> 1, err |-> 0, exp |-> 0]

(* C11 - Statistics arithmetic: in every reachable state statistics()    *)
(* reports totalAccesses = hitCount + missCount, totalMemoryAccessTime =  *)
(* hitCount*1 + missCount*101, and averageMemoryAccessTime *              *)
(* totalAccesses = totalMemoryAccessTime, with hitRate, missRate and      *)
(* averageMemoryAccessTime all 0 when totalAccesses = 0; 3 hits and 2     *)
(* misses give total time 205 and average 41.                              *)

\* Whether the double q = fl(time / total), multiplied by the integer total
\* in double arithmetic (the product rounded to nearest, ties to even), gives
\* exactly time.  The exact product is time + (q.err * g) / 2^q.exp with
\* g = total / q.den; it rounds to time when it lies within half a unit in
\* the last place of time (a quarter from below when time is a power of 2).
RECURSIVE Pow2(_)
Pow2(k) == IF k <= 0 THEN 1 ELSE 2 * Pow2(k - 1)

Abs(x) == IF x < 0 THEN 0 - x ELSE x

DoubleProductIs(q, total, time) ==
    LET d == q.err * (total \div q.den)
        span == Pow2(Log2Ratio(time, 1) - Log2Ratio(q.num, q.den))
    IN  IF d < 0 /\ time = Pow2(Log2Ratio(time, 1))
        THEN 4 * Abs(d) <= span
        ELSE 2 * Abs(d) <= span

IsZero(q) == q.num = 0 /\ q.err = 0

C11_Counts(st) ==
    /\ st.TotalAccesses = hits + misses
    /\ st.TotalMemoryAccessTime = hits * 1 + misses * 101
    /\ st.TotalAccesses = 0
       => IsZero(st.HitRate) /\ IsZero(st.MissRate) /\ IsZero(st.AverageMemoryAccessTime)
    /\ (hits = 3 /\ misses = 2)
       => /\ st.TotalMemoryAccessTime = 205
          /\ st.AverageMemoryAccessTime = [num |-> 41, den |-> 1, err |-> 0, exp |-> 47]

\* C11 as stated: the product of the reported average and totalAccesses is
\* totalMemoryAccessTime (read in the most lenient way, as a double product).
C11_ProductExact ==
    \A st \in {get_statistics} :
        /\ C11_Counts(st)
        /\ st.TotalAccesses > 0
           => DoubleProductIs(st.AverageMemoryAccessTime, st.TotalAccesses,
                              st.TotalMemoryAccessTime)

\* C11 as amended: the reported average is totalMemoryAccessTime /
\* totalAccesses rounded to the nearest double, so its product with
\* totalAccesses is totalMemoryAccessTime up to that rounding: off by at most
\* totalAccesses times half a unit in the last place of the average, and by
\* nothing when the quotient is representable.
C11_StatisticsArithmetic ==
    \A st \in {get_statistics} :
        LET avg == st.AverageMemoryAccessTime
        IN  /\ C11_Counts(st)
            /\ st.TotalAccesses > 0
               => /\ avg.num * st.TotalAccesses = st.TotalMemoryAccessTime * avg.den
                  /\ 2 * Abs(avg.err) <= avg.den
                  /\ (st.TotalMemoryAccessTime % st.TotalAccesses = 0) => avg.err = 0

\* statistics() has returned an average that is not the exact quotient.
C11_Witness ==
    /\ out.op = "get_statistics"
    /\ out.value = get_statistics
    /\ out.value.AverageMemoryAccessTime.err # 0

(* C12 - Logical clock: logicalClock starts at 0 and every access call,  *)
(* whether its address is valid or invalid, increases it by exactly 1; no *)
(* other operation changes it, so after k access calls logicalClock = k   *)
(* and hitCount + missCount <= logicalClock.                               *)
C12_ClockStep ==
    /\ IsAccessStep => time_counter' = time_counter + 1
    /\ ~IsAccessStep => time_counter' = time_counter

C12_LogicalClock ==
    /\ time_counter = 0
    /\ [](time_counter = Len(calls) /\ hits + misses <= time_counter)
    /\ [][C12_ClockStep]_vars

\* Valid and invalid accesses, a replay and a query have all happened.
C12_Witness ==
    /\ {"Invalid", "HIT", "Loaded"} \subseteq Kinds
    /\ out.op # "none"
    /\ hits + misses < time_counter

(* C13 - Trace is append-only: every access call extends the trace by at  *)
(* least one entry and never removes or alters an existing entry: exactly *)
(* 1 entry for an access the engine rejects as invalid, 1 for a hit, 2    *)
(* for a miss (MISS followed by loaded or replaced); the trace after any  *)
(* step has the previous trace as a prefix.                                *)
Appended == SubSeq(log', Len(log) + 1, Len(log'))

C13_TraceStep ==
    /\ Len(log') >= Len(log)
    /\ SubSeq(log', 1, Len(log)) = log
    /\ ~IsAccessStep => log' = log
    /\ IsAccessStep =>
          LET a == LastAddr' IN
          \/ /\ Len(Appended) = 1
             /\ Appended[1] = [kind |-> "Invalid", block |-> a]
             /\ a >= total_memory_blocks
             /\ hits' = hits /\ misses' = misses
          \/ /\ Len(Appended) = 1
             /\ Appended[1].kind = "HIT" /\ Appended[1].block = a
             /\ a < total_memory_blocks
             /\ hits' = hits + 1 /\ misses' = misses
          \/ /\ Len(Appended) = 2
             /\ Appended[1].kind = "MISS" /\ Appended[1].block = a
             /\ Appended[2].kind \in {"Loaded", "Replaced"} /\ Appended[2].block = a
             /\ a < total_memory_blocks
             /\ hits' = hits /\ misses' = misses + 1

RECURSIVE AccessAll(_, _)
AccessAll(st, seq) ==
    IF seq = <<>> THEN st ELSE AccessAll(AccessResult(st, Head(seq)), Tail(seq))

\* Calls made since the last run_sequence was entered.
SinceReplay == Len(calls) - replay.at

C14_ReplayState ==
    LET n == SinceReplay
        k == Len(replay.seq)
    IN  /\ pending # <<>> => n < k
        /\ n <= k =>
              /\ pending = SubSeq(replay.seq, n + 1, k)
              /\ \A i \in 1..n : calls[replay.at + i].addr = replay.seq[i]
              /\ Engine = AccessAll(replay.from, SubSeq(replay.seq, 1, n))
              /\ time_counter = replay.from.time_counter + n

\* A single access call, made outside any replay, is AccessResult.
C14_SingleStep ==
    (IsAccessStep /\ pending = <<>>) => Engine' = AccessResult(Engine, LastAddr')

C14_Replay ==
    /\ []C14_ReplayState
    /\ [][C14_SingleStep]_vars
    /\ (pending # <<>>) ~> (pending = <<>>)

\* A replay of 9 addresses, entered on an engine already used, has finished.
C14_Witness ==
    /\ Len(replay.seq) = 9
    /\ replay.at > 0
    /\ SinceReplay = 9
    /\ pending = <<>>
    /\ ReplacedAt # {}

(* C15 - Read-only queries: snapshot() and statistics() leave sets,      *)
(* logicalClock, hitCount, missCount and trace unchanged in every         *)
(* reachable state, and snapshot() lists the Sets in ascending set-index  *)
(* order 0,1,2,3 with exactly the Lines (address and lastTouched)         *)
(* currently resident in each.                                             *)

\* A query returns in this step: out is assigned a new value.
IsQueryStep == out' # out

\* The positions of the "Set" header lines of a snapshot, in order.
RECURSIVE HeadersFrom(_, _)
HeadersFrom(snap, i) ==
    IF i > Len(snap) THEN <<>>
    ELSE IF snap[i].kind = "Set" THEN <<i>> \o HeadersFrom(snap, i + 1)
    ELSE HeadersFrom(snap, i + 1)

C15_SnapshotShows(snap, c) ==
    LET hd == HeadersFrom(snap, 1)
        last(j) == IF j = 4 THEN Len(snap) ELSE hd[j + 1] - 1
    IN  /\ Len(hd) = 4
        /\ Len(snap) >= 4
        /\ hd[1] = 1
        /\ \A j \in 1..4 :
              /\ snap[hd[j]] = [kind |-> "Set", set |-> j - 1]
              /\ last(j) - hd[j] = Len(c[j - 1])
              /\ \A i \in 1..Len(c[j - 1]) :
                    snap[hd[j] + i] = [kind |-> "Block", block |-> c[j - 1][i].block,
                                       timestamp |-> c[j - 1][i].timestamp]

C15_QueryStep ==
    IsQueryStep =>
        /\ Engine' = Engine
        /\ total_memory_blocks' = total_memory_blocks
        /\ out'.op \in {"get_statistics", "get_cache_snapshot"}
        /\ out'.op = "get_cache_snapshot" => C15_SnapshotShows(out'.value, cache)
        /\ out'.op = "get_statistics" =>
              /\ out'.value.Hits = hits
              /\ out'.value.Misses = misses
              /\ out'.value.TotalAccesses = hits + misses

\* C15: every step in which a query returns is such a step.
C15_ReadOnlyQueries == [][C15_QueryStep]_vars

\* snapshot() has returned the picture of a cache with Lines in two Sets,
\* one of them full.
C15_Witness ==
    /\ out.op = "get_cache_snapshot"
    /\ Len(out.value) >= 4 + 8 + 1
    /\ out.value = get_cache_snapshot
    /\ Len(cache[0]) = 8
    /\ cache[1] # <<>>

(* C16 - Hit frame effect: when access(a) is a hit, the only Line that   *)
(* changes is the one holding a, whose lastTouched becomes the current    *)
(* logicalClock while its blockAddress stays a; the set of resident       *)
(* blocks in every Set, all other Lines' lastTouched values and missCount *)
(* are unchanged, and hitCount increases by exactly 1.                     *)
C16_HitStep ==
    (IsAccessStep /\ Len(log') > Len(log) /\ log'[Len(log')].kind = "HIT") =>
        LET a == LastAddr'
            s == a % 4
        IN  /\ \E i \in 1..Len(cache[s]) :
                  /\ cache[s][i].block = a
                  /\ cache'[s] = [cache[s] EXCEPT ![i] =
                                     [block |-> a, timestamp |-> time_counter']]
            /\ \A t \in SetIds \ {s} : cache'[t] = cache[t]
            /\ \A t \in SetIds :
                  {cache'[t][i].block : i \in 1..Len(cache'[t])} = Blocks(t)
            /\ misses' = misses
            /\ hits' = hits + 1

\* C16: every hit of every run has exactly that effect.
C16_HitFrame == [][C16_HitStep]_vars

\* The last access hit a Line that is not the last of a full Set, while
\* another Set holds Lines too.
C16_Witness ==
    /\ log # <<>>
    /\ log[Len(log)].kind = "HIT"
    /\ Len(cache[0]) = 8
    /\ cache[0][1].timestamp = time_counter
    /\ cache[1] # <<>>

(* C17 - Lines are never deleted: the number of Lines in each Set never   *)
(* decreases; a miss on a Set with fewer than 8 Lines adds exactly one    *)
(* Line {a, logicalClock} and leaves all existing Lines unchanged, and a  *)
(* miss on a full Set leaves the Line count at 8.                          *)
C17_LineStep ==
    /\ \A s \in SetIds : Len(cache'[s]) >= Len(cache[s])
    /\ (IsAccessStep /\ misses' = misses + 1) =>
          LET a == LastAddr'
              s == a % 4
          IN  /\ Len(cache[s]) < 8 =>
                    cache' = [cache EXCEPT ![s] =
                                 Append(cache[s], [block |-> a, timestamp |-> time_counter'])]
              /\ Len(cache[s]) = 8 => Len(cache'[s]) = 8
              /\ \A t \in SetIds \ {s} : cache'[t] = cache[t]

\* C17: every step of every run keeps the Lines that way.
C17_NeverDeleted == [][C17_LineStep]_vars

\* Misses have both added Lines and overwritten one in a full Set.
C17_Witness ==
    /\ ReplacedAt # {}
    /\ Len(cache[0]) = 8
    /\ \E s \in SetIds \ {0} : cache[s] # <<>>

(* C18 - Eviction tie never arises: in every reachable state all resident *)
(* Lines (within a Set and across Sets) have pairwise distinct            *)
(* lastTouched values, each between 1 and logicalClock, so the            *)
(* maximum-lastTouched Line of a full Set is unique.                       *)
Slots == UNION {{<<s, i>> : i \in 1..Len(cache[s])} : s \in SetIds}

StampAt(p) == cache[p[1]][p[2]].timestamp

C18_NoTie ==
    /\ \A all \in {Slots} :
          /\ \A p, q \in all : StampAt(p) = StampAt(q) => p = q
          /\ \A p \in all : 1 <= StampAt(p) /\ StampAt(p) <= time_counter
    /\ \A s \in SetIds : Len(cache[s]) = 8 =>
          Cardinality({i \in 1..8 : cache[s][i].timestamp = MaxStamp(cache[s])}) = 1

\* Hits and a replacement have re-stamped Lines of a full Set while another
\* Set holds Lines.
C18_Witness ==
    /\ hits > 0
    /\ ReplacedAt # {}
    /\ Len(cache[0]) = 8
    /\ cache[1] # <<>>

(* C19 - Random stream stays in range: for n >= 1 and totalAddressSpace  *)
(* >= 1, random(n, totalAddressSpace) returns exactly 4n addresses each   *)
(* satisfying 0 <= a < totalAddressSpace, so replaying it on a fresh      *)
(* engine with the same totalAddressSpace produces no invalid-address     *)
(* trace entry and totalAccesses = 4n.                                     *)
Generated == gen.phase \in {"ready", "run", "done"}

Replayed == gen.phase \in {"run", "done"} /\ pending = <<>>

C19_RandomInRange ==
    gen.kind = "Random" =>
        /\ gen.n >= 1 /\ total_memory_blocks >= 1
        /\ \A i \in 1..Len(gen.seq) : 0 <= gen.seq[i] /\ gen.seq[i] < total_memory_blocks
        /\ Len(gen.seq) <= 4 * gen.n
        /\ Generated => Len(gen.seq) = 4 * gen.n
        /\ "Invalid" \notin Kinds
        /\ Replayed =>
              /\ CallAddrs = gen.seq
              /\ get_statistics.TotalAccesses = 4 * gen.n
              /\ hits + misses = 4 * gen.n

\* A random sequence with repeated and distinct addresses has been replayed
\* and its results read.
C19_Witness ==
    /\ gen.kind = "Random"
    /\ gen.phase = "done"
    /\ out.op = "display"
    /\ out.stats.TotalAccesses = 4 * gen.n
    /\ hits > 0
    /\ misses > 1

(* C20 - End-to-end sequential run: sequential(32) is the 256-element     *)
(* sequence 0..63 repeated 4 times, and replaying it on a fresh engine    *)
(* with totalAddressSpace = 1024 yields no invalid-address entry,         *)
(* hitCount = 96 and missCount = 160 (each Set: 16 misses in pass 1, then *)
(* 8 hits and 8 misses in each of passes 2-4), hence                      *)
(* totalMemoryAccessTime = 16256.                                          *)
CountIn(kind, s) == Cardinality({i \in 1..Len(log) : log[i].kind = kind /\ log[i].set = s})

C20_SequentialRun ==
    (gen.kind = "Sequential" /\ gen.n = 32 /\ total_memory_blocks = 1024) =>
        /\ Generated =>
              /\ Len(gen.seq) = 256
              /\ \A i \in 1..256 : gen.seq[i] = (i - 1) % 64
        /\ "Invalid" \notin Kinds
        /\ \A p \in 1..4 :
              (gen.phase \in {"run", "done"} /\ Len(calls) = 64 * p) =>
                  /\ \A i \in 1..Len(calls) : calls[i].addr = (i - 1) % 64
                  /\ hits = 32 * (p - 1)
                  /\ misses = 64 + 32 * (p - 1)
                  /\ \A s \in SetIds :
                        /\ CountIn("HIT", s) = 8 * (p - 1)
                        /\ CountIn("MISS", s) = 16 + 8 * (p - 1)
        /\ Replayed =>
              /\ Len(calls) = 256
              /\ hits = 96
              /\ misses = 160
              /\ get_statistics.TotalMemoryAccessTime = 16256

\* The run of sequential(32) has finished and its results have been read.
C20_Witness ==
    /\ gen.kind = "Sequential" /\ gen.n = 32 /\ total_memory_blocks = 1024
    /\ gen.phase = "done"
    /\ out.op = "display"
    /\ out.stats.Hits = 96
    /\ Len(calls) = 256

=============================================================================
